---- MODULE Spec2Model ----
(***************************************************************************)
(* PlasmaPongEnv (src/src/RL_mod/gym_env.py): a Gymnasium environment that *)
(* drives a browser-hosted Plasma Pong game through a Selenium WebDriver.  *)
(*                                                                         *)
(* The adapter is a single blocking thread.  Every WebDriver round-trip of *)
(* reset and step is one action of the model; the game (the "simulator")   *)
(* runs its own loop and may act between any two round-trips.              *)
(***************************************************************************)
EXTENDS Integers, Sequences, FiniteSets, TLC

VARIABLES
    \* ---- the adapter (fields and locals of PlasmaPongEnv) ----
    pc,               \* position of the adapter's thread
    call,             \* the call in progress or last finished: "init", "reset", "step"
    action,           \* argument of the current / last step
    keys_to_send,     \* local of step
    ki,               \* index of the running for-loop over keys_to_send
    prev_bot_life,    \* self.prev_bot_life     (opponent side, pong.ai)
    prev_player_life, \* self.prev_player_life  (agent side, pong.player)
    bot_life,         \* local of _get_reward_done
    player_life,      \* local of _get_reward_done
    display_active,   \* local of _get_reward_done
    ret,              \* what the last call returned or raised
    canvas_data_url,  \* local of _get_obs: the payload the last capture received
    obs,              \* local obs: shape of the observation of the current / last call
    mode,             \* argument of the current / last render
    \* ---- the simulator (the game page behind the driver) ----
    ai_life,          \* pong.ai.life
    pl_life,          \* pong.player.life
    display,          \* pong.display
    multiplayer,      \* pong.ai.multiplayer
    sim_keys,         \* key codes the page currently holds in the pressed phase
    \* ---- history (not read by the adapter) ----
    events,           \* simulator interactions of the current / last call, in order
    cmp_lives,        \* <<prev_bot_life, prev_player_life>> the last reward was compared to
    lives_at_call,    \* <<prev_bot_life, prev_player_life>> when the current / last call began
    ctl,              \* Episode Controller state of spec section 4.4
    constructed,      \* __init__ has returned
    last,             \* the reset or step that finished before the current / last call
    caller_resets,    \* reset calls made by the caller (not by __init__)
    ncalls,           \* calls made by the caller
    waits,            \* polls of the readiness wait that is running
    episode_steps,    \* steps that returned since the last reset began
    last_poll,        \* counters of the last poll that a step completed; (5, 5) from a reset
    prev_poll,        \* last_poll as it was before the poll of the step that returned last
    held,             \* <<ai_life, pl_life, display>> as the simulator held them, from the
                      \* first poll of the running step on
    n_plus,           \* rewards +1 returned since the last reset began
    n_minus,          \* rewards -1 returned since the last reset began
    owed,             \* a step failed in its capture while the opponent's counter was
                      \* below the previous one, and no step has completed since
    paid,             \* the step that returned last began with owed true
    torn              \* the simulator never held, between the first and the last poll
                      \* of the step that returned last, the three values it read

vars == <<pc, call, action, keys_to_send, ki, prev_bot_life, prev_player_life,
          bot_life, player_life, display_active, ret, canvas_data_url, obs, mode,
          ai_life, pl_life, display, multiplayer, sim_keys,
          events, cmp_lives, lives_at_call, ctl, constructed, last, caller_resets, ncalls, waits,
          episode_steps, last_poll, prev_poll, held, n_plus, n_minus, owed, paid, torn>>

adapterVars == <<pc, call, action, keys_to_send, ki, prev_bot_life, prev_player_life,
                 bot_life, player_life, display_active, ret, canvas_data_url, obs, mode>>
simVars     == <<ai_life, pl_life, display, multiplayer, sim_keys>>
histVars    == <<events, cmp_lives, lives_at_call, ctl, constructed, last, caller_resets, ncalls, waits,
                 episode_steps>>
pollVars    == <<last_poll, prev_poll, held, n_plus, n_minus, owed, paid, torn>>

----------------------------------------------------------------------------
(* Bounds of the model *)

\* calls the caller makes after construction
MaxCalls == 2
\* lives each side can lose in the model between two restarts
MaxLoss == 2
\* polls of the readiness wait that are counted and logged (the loop itself is unbounded)
MaxWaits == 2

\* the step budget (max_steps) the caller passes to the constructor in the model
MaxStepsArg == 1

(* Program constants *)

\* self.h, self.w, self.c: the declared shape of an observation
self_h == 96
self_w == 96
self_c == 3

\* starting value of both life counters
StartLife == 5

\* action identifiers the caller may pass: the five valid ones and one on each side
ActionInputs == (0 - 1) .. 5

Lives == (StartLife - MaxLoss) .. StartLife

\* modes the caller may pass to render: the two supported ones and another
RenderModes == {"rgb_array", "human", "ansi"}

\* <<height, width>> of the page's canvas: the declared size, and a larger one
CanvasSizes == {<<self_h, self_w>>, <<2 * self_h, 2 * self_w>>}

\* what canvas.toDataURL comes back as: a data URL holding a PNG, a string with
\* no comma, a data URL whose body is not base64, one whose body is no image
Payloads == {"png", "no_comma", "bad_base64", "not_image"}

----------------------------------------------------------------------------
(* Pure parts of the adapter *)

\* self.action_keys
action_keys ==
    (0 :> << >>) @@ (1 :> <<87>>) @@ (2 :> <<83>>) @@ (3 :> <<68>>) @@ (4 :> <<65>>)

\* keycode_to_char of step
keycode_to_char == (87 :> "w") @@ (83 :> "s") @@ (68 :> "d") @@ (65 :> "a")

\* a variant of the lookup that falls back to the no-op, as dict.get(action, []) would
KeysToSendOrDefault(a) ==
    IF a \in DOMAIN action_keys
    THEN [raised |-> FALSE, keys |-> action_keys[a]]
    ELSE [raised |-> FALSE, keys |-> << >>]

\* keys_to_send = self.action_keys[action]: a KeyError for an unknown identifier
KeysToSend(a) ==
    IF a \in DOMAIN action_keys
    THEN [raised |-> FALSE, keys |-> action_keys[a]]
    ELSE [raised |-> TRUE, keys |-> << >>]

\* a variant of the reward rule that tests the agent's counter first
RewardConcedeFirst(bot, player, prevBot, prevPlayer) ==
    IF player < prevPlayer THEN 0 - 1
    ELSE IF bot < prevBot THEN 1
    ELSE 0

\* a variant of the reward rule that compares with the starting lives
RewardAgainstStart(bot, player, prevBot, prevPlayer) ==
    IF bot < StartLife THEN 1
    ELSE IF player < StartLife THEN 0 - 1
    ELSE 0

\* reward of _get_reward_done: the if / elif on the two counters
Reward(bot, player, prevBot, prevPlayer) ==
    IF bot < prevBot THEN 1
    ELSE IF player < prevPlayer THEN 0 - 1
    ELSE 0

\* a variant of the termination rule that declares the game over when a counter is spent
DoneOnLifeLost(displayActive, bot, player) ==
    (~displayActive) \/ bot < StartLife \/ player < StartLife

\* done = not display_active (the counters are passed to show they are not used)
Done(displayActive, bot, player) == ~displayActive

\* no observation
NoObs == << >>

\* the exceptions the decoding of a payload raises
DecodeErrors == {"IndexError", "binascii.Error", "UnidentifiedImageError"}

\* a variant of the decoding that answers a blank frame of the declared shape
\* when the payload cannot be decoded
DecodeOrBlank(payload, size) ==
    IF payload = "png"
    THEN [raised |-> FALSE, exc |-> "none", shape |-> <<size[1], size[2], 3>>]
    ELSE [raised |-> FALSE, exc |-> "none", shape |-> <<self_h, self_w, self_c>>]

\* _get_obs after the round-trip: split(",", 1)[1], b64decode, Image.open,
\* convert("RGB"), np.array(image): an array of the canvas's own height and width
\* with 3 channels; no resizing
Decode(payload, size) ==
    IF payload = "no_comma"
    THEN [raised |-> TRUE, exc |-> "IndexError", shape |-> NoObs]
    ELSE IF payload = "bad_base64"
    THEN [raised |-> TRUE, exc |-> "binascii.Error", shape |-> NoObs]
    ELSE IF payload = "not_image"
    THEN [raised |-> TRUE, exc |-> "UnidentifiedImageError", shape |-> NoObs]
    ELSE [raised |-> FALSE, exc |-> "none", shape |-> <<size[1], size[2], 3>>]

\* np.array(obs, dtype=np.uint8).reshape(self.h, self.w, 3) of render: a
\* ValueError unless the array holds self.h * self.w * 3 values
Reshape(shape) ==
    IF shape[1] * shape[2] * shape[3] = self_h * self_w * 3
    THEN [raised |-> FALSE, exc |-> "none", shape |-> <<self_h, self_w, 3>>]
    ELSE [raised |-> TRUE, exc |-> "ValueError", shape |-> NoObs]

\* a variant of step that truncates the episode when the step budget is used up
TruncatedAtBudget(steps, budget) == steps >= budget

\* truncated = False of step, whatever the number of steps and the budget
Truncated(steps, budget) == FALSE

----------------------------------------------------------------------------
(* Records *)

NoRet == [kind |-> "none", outcome |-> "none", reward |-> 0, done |-> FALSE,
          truncated |-> FALSE, info |-> << >>, at |-> "none"]

\* the statement the adapter is at: pc, with the capture of step told apart from
\* the release loop before it
At == IF pc = "s_up" /\ ki > Len(keys_to_send) THEN "s_obs" ELSE pc

\* a call of the given kind ended in the exception exc, raised where the adapter is
Raised(kind, exc) == [kind |-> kind, outcome |-> exc, reward |-> 0, done |-> FALSE,
                      truncated |-> FALSE, info |-> << >>, at |-> At]

\* a call of the given kind returned
Returned(kind, reward, done, truncated) ==
    [kind |-> kind, outcome |-> "ok", reward |-> reward, done |-> done,
     truncated |-> truncated, info |-> << >>, at |-> "none"]

Ev(op, key) == [op |-> op, key |-> key]

\* log an interaction of the current call
Log(op, key) == Append(events, Ev(op, key))

\* the kind of call that just finished, as remembered for the next one
Kind(r) == IF r.kind = "step" /\ r.outcome = "ok" /\ r.done THEN "step_done"
           ELSE IF r.outcome = "ok" THEN r.kind
           ELSE "failed"

\* the reset or step that finished last, when a new call begins after r
Before(r) == IF r.kind \in {"reset", "step"} THEN Kind(r) ELSE last

----------------------------------------------------------------------------
(* Initial state: the interpreter is about to run PlasmaPongEnv(...) and   *)
(* the browser holds no page.                                              *)

Init ==
    /\ pc = "new"
    /\ call = "none"
    /\ action = 0
    /\ keys_to_send = << >>
    /\ ki = 1
    /\ prev_bot_life = StartLife
    /\ prev_player_life = StartLife
    /\ bot_life = StartLife
    /\ player_life = StartLife
    /\ display_active = FALSE
    /\ ret = NoRet
    /\ canvas_data_url = "none"
    /\ obs = NoObs
    /\ mode = "none"
    /\ ai_life = StartLife
    /\ pl_life = StartLife
    /\ display = FALSE
    /\ multiplayer = TRUE
    /\ sim_keys = {}
    /\ events = << >>
    /\ cmp_lives = <<StartLife, StartLife>>
    /\ lives_at_call = <<StartLife, StartLife>>
    /\ ctl = "Uninitialized"
    /\ constructed = FALSE
    /\ last = "none"
    /\ caller_resets = 0
    /\ ncalls = 0
    /\ waits = 0
    /\ episode_steps = 0
    /\ last_poll = <<StartLife, StartLife>>
    /\ prev_poll = <<StartLife, StartLife>>
    /\ held = {}
    /\ n_plus = 0
    /\ n_minus = 0
    /\ owed = FALSE
    /\ paid = FALSE
    /\ torn = FALSE

----------------------------------------------------------------------------
(* Return and raise *)

\* the call of kind c ends with r: a return, or an exception that leaves the method
Finish(c, r) ==
    /\ ret' = r
    /\ pc' = IF c = "init" /\ r.outcome # "ok" THEN "dead" ELSE "idle"
    /\ constructed' = (constructed \/ (c = "init" /\ r.outcome = "ok"))
    /\ ctl' = IF r.outcome # "ok" \/ r.kind \notin {"reset", "step"} THEN ctl
              ELSE IF r.kind = "step" /\ r.done THEN "Terminated"
              ELSE "Ready"

\* the positions at which the adapter is about to make a WebDriver round-trip
AtRoundTrip ==
    \/ pc \in {"r_get", "r_multi", "r_restart", "r_wait", "r_find", "r_click", "r_obs",
               "s_find", "s_bot", "s_player", "s_display", "n_obs"}
    \/ pc \in {"s_down", "s_up"} /\ ki <= Len(keys_to_send)
          /\ keys_to_send[ki] \in DOMAIN keycode_to_char
    \/ pc = "s_up" /\ ki > Len(keys_to_send)

----------------------------------------------------------------------------
(* Construction and reset *)

\* a new call starts: the locals of the call before are gone
NoLocals ==
    /\ bot_life' = StartLife
    /\ player_life' = StartLife
    /\ display_active' = FALSE
    /\ cmp_lives' = <<StartLife, StartLife>>
    /\ canvas_data_url' = "none"
    /\ obs' = NoObs
    /\ prev_poll' = <<StartLife, StartLife>>
    /\ held' = {}
    /\ paid' = FALSE
    /\ torn' = FALSE

\* a constructor that returns without starting the game
NewEnvNoReset ==
    /\ pc = "new"
    /\ prev_bot_life' = StartLife
    /\ prev_player_life' = StartLife
    /\ call' = "init"
    /\ pc' = "idle"
    /\ constructed' = TRUE
    /\ UNCHANGED <<action, keys_to_send, ki, bot_life, player_life, display_active, ret>>
    /\ UNCHANGED simVars
    /\ UNCHANGED <<events, cmp_lives, lives_at_call, ctl, last, caller_resets, ncalls, waits>>
    /\ UNCHANGED <<canvas_data_url, obs, mode, episode_steps>>
    /\ UNCHANGED pollVars

\* __init__: sets the fields, then calls self.reset()
NewEnv ==
    /\ pc = "new"
    /\ prev_bot_life' = StartLife
    /\ prev_player_life' = StartLife
    /\ call' = "init"
    /\ pc' = "r_get"
    /\ events' = << >>
    /\ waits' = 0
    /\ UNCHANGED <<action, keys_to_send, ki, bot_life, player_life, display_active, ret>>
    /\ UNCHANGED simVars
    /\ UNCHANGED <<cmp_lives, lives_at_call, ctl, constructed, last, caller_resets, ncalls>>
    /\ UNCHANGED <<canvas_data_url, obs, mode, episode_steps>>
    /\ UNCHANGED pollVars

\* the caller calls env.reset()
CallReset ==
    /\ pc = "idle"
    /\ ncalls < MaxCalls
    /\ call' = "reset"
    /\ pc' = "r_get"
    /\ ret' = NoRet
    /\ events' = << >>
    /\ waits' = 0
    /\ last' = Before(ret)
    /\ ncalls' = ncalls + 1
    /\ caller_resets' = caller_resets + 1
    /\ action' = 0
    /\ keys_to_send' = << >>
    /\ ki' = 1
    /\ NoLocals
    /\ lives_at_call' = <<prev_bot_life, prev_player_life>>
    /\ UNCHANGED <<prev_bot_life, prev_player_life>>
    /\ UNCHANGED simVars
    /\ UNCHANGED <<ctl, constructed>>
    /\ episode_steps' = 0
    /\ mode' = "none"
    /\ n_plus' = 0
    /\ n_minus' = 0
    /\ owed' = FALSE
    /\ UNCHANGED last_poll

\* self.driver.get(self.html_path); time.sleep(2)
ResetLoadPage ==
    /\ pc = "r_get"
    /\ pc' = "r_multi"
    /\ ai_life' = StartLife
    /\ pl_life' = StartLife
    /\ display' \in BOOLEAN
    /\ multiplayer' = TRUE
    /\ sim_keys' = {}
    /\ events' = Log("get", 0)
    /\ UNCHANGED <<call, action, keys_to_send, ki, prev_bot_life, prev_player_life,
                   bot_life, player_life, display_active, ret>>
    /\ UNCHANGED <<cmp_lives, lives_at_call, ctl, constructed, last, caller_resets, ncalls, waits>>
    /\ UNCHANGED <<canvas_data_url, obs, mode, episode_steps>>
    /\ UNCHANGED pollVars

\* execute_script("pong.ai.multiplayer = false;")
ResetSinglePlayer ==
    /\ pc = "r_multi"
    /\ pc' = "r_restart"
    /\ multiplayer' = FALSE
    /\ events' = Log("multiplayer_off", 0)
    /\ UNCHANGED <<call, action, keys_to_send, ki, prev_bot_life, prev_player_life,
                   bot_life, player_life, display_active, ret>>
    /\ UNCHANGED <<ai_life, pl_life, display, sim_keys>>
    /\ UNCHANGED <<cmp_lives, lives_at_call, ctl, constructed, last, caller_resets, ncalls, waits>>
    /\ UNCHANGED <<canvas_data_url, obs, mode, episode_steps>>
    /\ UNCHANGED pollVars

\* execute_script("restart();")
ResetRestart ==
    /\ pc = "r_restart"
    /\ pc' = "r_wait"
    /\ ai_life' = StartLife
    /\ pl_life' = StartLife
    /\ display' \in BOOLEAN
    /\ events' = Log("restart", 0)
    /\ UNCHANGED <<call, action, keys_to_send, ki, prev_bot_life, prev_player_life,
                   bot_life, player_life, display_active, ret>>
    /\ UNCHANGED <<multiplayer, sim_keys>>
    /\ UNCHANGED <<cmp_lives, lives_at_call, ctl, constructed, last, caller_resets, ncalls, waits>>
    /\ UNCHANGED <<canvas_data_url, obs, mode, episode_steps>>
    /\ UNCHANGED pollVars

\* a readiness wait that polls once and goes on whatever the answer
ResetWaitOnce ==
    /\ pc = "r_wait"
    /\ pc' = "r_set"
    /\ waits' = 0
    /\ events' = Log(IF display THEN "poll_true" ELSE "poll_false", 0)
    /\ UNCHANGED <<call, action, keys_to_send, ki, prev_bot_life, prev_player_life,
                   bot_life, player_life, display_active, ret>>
    /\ UNCHANGED simVars
    /\ UNCHANGED <<cmp_lives, lives_at_call, ctl, constructed, last, caller_resets, ncalls>>
    /\ UNCHANGED <<canvas_data_url, obs, mode, episode_steps>>
    /\ UNCHANGED pollVars

\* while not execute_script("return pong.display;"):
\* one poll of the loop; the loop has no exit but a true poll
ResetWait ==
    /\ pc = "r_wait"
    /\ pc' = IF display THEN "r_set" ELSE "r_sleep"
    /\ waits' = IF display THEN 0 ELSE IF waits < MaxWaits THEN waits + 1 ELSE waits
    /\ events' = IF display THEN Log("poll_true", 0)
                 ELSE IF waits < MaxWaits THEN Log("poll_false", 0)
                 ELSE events
    /\ UNCHANGED <<call, action, keys_to_send, ki, prev_bot_life, prev_player_life,
                   bot_life, player_life, display_active, ret>>
    /\ UNCHANGED simVars
    /\ UNCHANGED <<cmp_lives, lives_at_call, ctl, constructed, last, caller_resets, ncalls>>
    /\ UNCHANGED <<canvas_data_url, obs, mode, episode_steps>>
    /\ UNCHANGED pollVars

\* time.sleep(0.1), the body of the readiness loop, then back to its test
ResetSleep ==
    /\ pc = "r_sleep"
    /\ pc' = "r_wait"
    /\ UNCHANGED <<call, action, keys_to_send, ki, prev_bot_life, prev_player_life,
                   bot_life, player_life, display_active, ret>>
    /\ UNCHANGED simVars
    /\ UNCHANGED histVars
    /\ UNCHANGED <<canvas_data_url, obs, mode>>
    /\ UNCHANGED pollVars

\* a reset that keeps the counters of the episode before
ResetKeepLives ==
    /\ pc = "r_set"
    /\ pc' = "r_find"
    /\ events' = Log("set_lives", 0)
    /\ UNCHANGED <<call, action, keys_to_send, ki, prev_bot_life, prev_player_life,
                   bot_life, player_life, display_active, ret>>
    /\ UNCHANGED simVars
    /\ UNCHANGED <<cmp_lives, lives_at_call, ctl, constructed, last, caller_resets, ncalls, waits>>
    /\ UNCHANGED <<canvas_data_url, obs, mode, episode_steps>>
    /\ last_poll' = <<StartLife, StartLife>>
    /\ UNCHANGED <<prev_poll, held, n_plus, n_minus, owed, paid, torn>>

\* self.prev_bot_life = 5; self.prev_player_life = 5
ResetPrevLives ==
    /\ pc = "r_set"
    /\ pc' = "r_find"
    /\ prev_bot_life' = StartLife
    /\ prev_player_life' = StartLife
    /\ events' = Log("set_lives", 0)
    /\ UNCHANGED <<call, action, keys_to_send, ki,
                   bot_life, player_life, display_active, ret>>
    /\ UNCHANGED simVars
    /\ UNCHANGED <<cmp_lives, lives_at_call, ctl, constructed, last, caller_resets, ncalls, waits>>
    /\ UNCHANGED <<canvas_data_url, obs, mode, episode_steps>>
    /\ last_poll' = <<StartLife, StartLife>>
    /\ UNCHANGED <<prev_poll, held, n_plus, n_minus, owed, paid, torn>>

\* self.driver.find_element(value="canvas") of reset: the first round-trip of
\* find_element(...).click()
ResetFindCanvas ==
    /\ pc = "r_find"
    /\ pc' = "r_click"
    /\ events' = Log("find", 0)
    /\ UNCHANGED <<call, action, keys_to_send, ki, prev_bot_life, prev_player_life,
                   bot_life, player_life, display_active, ret>>
    /\ UNCHANGED simVars
    /\ UNCHANGED <<cmp_lives, lives_at_call, ctl, constructed, last, caller_resets, ncalls, waits>>
    /\ UNCHANGED <<canvas_data_url, obs, mode, episode_steps>>
    /\ UNCHANGED pollVars

\* .click() on the element found: the second round-trip of the same statement
ResetFocus ==
    /\ pc = "r_click"
    /\ pc' = "r_obs"
    /\ events' = Log("click", 0)
    /\ UNCHANGED <<call, action, keys_to_send, ki, prev_bot_life, prev_player_life,
                   bot_life, player_life, display_active, ret>>
    /\ UNCHANGED simVars
    /\ UNCHANGED <<cmp_lives, lives_at_call, ctl, constructed, last, caller_resets, ncalls, waits>>
    /\ UNCHANGED <<canvas_data_url, obs, mode, episode_steps>>
    /\ UNCHANGED pollVars

\* obs = self._get_obs(); return obs, {}
ResetGetObs ==
    /\ pc = "r_obs"
    /\ events' = Log("capture", 0)
    /\ \E size \in CanvasSizes, payload \in Payloads :
         LET d == Decode(payload, size) IN
           /\ canvas_data_url' = payload
           /\ obs' = d.shape
           /\ IF d.raised
              THEN Finish(call, Raised("reset", d.exc))
              ELSE Finish(call, Returned("reset", 0, FALSE, FALSE))
    /\ UNCHANGED <<call, action, keys_to_send, ki, prev_bot_life, prev_player_life,
                   bot_life, player_life, display_active, mode>>
    /\ UNCHANGED simVars
    /\ UNCHANGED <<cmp_lives, lives_at_call, last, caller_resets, ncalls, waits,
                   episode_steps>>
    /\ UNCHANGED pollVars

----------------------------------------------------------------------------
(* step *)

\* the caller calls env.step(a); keys_to_send = self.action_keys[action]
CallStep(a) ==
    /\ pc = "idle"
    /\ ncalls < MaxCalls
    /\ call' = "step"
    /\ action' = a
    /\ events' = << >>
    /\ last' = Before(ret)
    /\ ncalls' = ncalls + 1
    /\ LET k == KeysToSend(a) IN
         IF k.raised
         THEN /\ Finish("step", Raised("step", "KeyError"))
              /\ UNCHANGED <<keys_to_send, ki>>
         ELSE /\ keys_to_send' = k.keys
              /\ ki' = 1
              /\ pc' = "s_find"
              /\ ret' = NoRet
              /\ UNCHANGED <<ctl, constructed>>
    /\ NoLocals
    /\ lives_at_call' = <<prev_bot_life, prev_player_life>>
    /\ UNCHANGED <<prev_bot_life, prev_player_life>>
    /\ UNCHANGED simVars
    /\ UNCHANGED <<caller_resets, waits>>
    /\ mode' = "none"
    /\ UNCHANGED episode_steps
    /\ UNCHANGED <<last_poll, n_plus, n_minus, owed>>

\* self.driver.find_element(value="canvas")
StepFindCanvas ==
    /\ pc = "s_find"
    /\ pc' = "s_down"
    /\ ki' = 1
    /\ events' = Log("find", 0)
    /\ UNCHANGED <<call, action, keys_to_send, prev_bot_life, prev_player_life,
                   bot_life, player_life, display_active, ret>>
    /\ UNCHANGED simVars
    /\ UNCHANGED <<cmp_lives, lives_at_call, ctl, constructed, last, caller_resets, ncalls, waits>>
    /\ UNCHANGED <<canvas_data_url, obs, mode, episode_steps>>
    /\ UNCHANGED pollVars

\* one pass of the press loop: dispatch a keydown event for a known key code
StepKeyDown ==
    /\ pc = "s_down"
    /\ ki <= Len(keys_to_send)
    /\ LET keyCode == keys_to_send[ki] IN
         IF keyCode \in DOMAIN keycode_to_char
         THEN /\ sim_keys' = sim_keys \cup {keyCode}
              /\ events' = Log("keydown", keyCode)
         ELSE UNCHANGED <<sim_keys, events>>
    /\ ki' = ki + 1
    /\ UNCHANGED <<pc, call, action, keys_to_send, prev_bot_life, prev_player_life,
                   bot_life, player_life, display_active, ret>>
    /\ UNCHANGED <<ai_life, pl_life, display, multiplayer>>
    /\ UNCHANGED <<cmp_lives, lives_at_call, ctl, constructed, last, caller_resets, ncalls, waits>>
    /\ UNCHANGED <<canvas_data_url, obs, mode, episode_steps>>
    /\ UNCHANGED pollVars

\* time.sleep(0.016), once the press loop is over
StepSettle ==
    /\ pc = "s_down"
    /\ ki > Len(keys_to_send)
    /\ pc' = "s_up"
    /\ ki' = 1
    /\ events' = Log("sleep", 0)
    /\ UNCHANGED <<call, action, keys_to_send, prev_bot_life, prev_player_life,
                   bot_life, player_life, display_active, ret>>
    /\ UNCHANGED simVars
    /\ UNCHANGED <<cmp_lives, lives_at_call, ctl, constructed, last, caller_resets, ncalls, waits>>
    /\ UNCHANGED <<canvas_data_url, obs, mode, episode_steps>>
    /\ UNCHANGED pollVars

\* one pass of the release loop: dispatch a keyup event for a known key code
StepKeyUp ==
    /\ pc = "s_up"
    /\ ki <= Len(keys_to_send)
    /\ LET keyCode == keys_to_send[ki] IN
         IF keyCode \in DOMAIN keycode_to_char
         THEN /\ sim_keys' = sim_keys \ {keyCode}
              /\ events' = Log("keyup", keyCode)
         ELSE UNCHANGED <<sim_keys, events>>
    /\ ki' = ki + 1
    /\ UNCHANGED <<pc, call, action, keys_to_send, prev_bot_life, prev_player_life,
                   bot_life, player_life, display_active, ret>>
    /\ UNCHANGED <<ai_life, pl_life, display, multiplayer>>
    /\ UNCHANGED <<cmp_lives, lives_at_call, ctl, constructed, last, caller_resets, ncalls, waits>>
    /\ UNCHANGED <<canvas_data_url, obs, mode, episode_steps>>
    /\ UNCHANGED pollVars

\* a step that captures as soon as the settle wait is over, before the release
StepGetObsBeforeRelease ==
    /\ pc = "s_up"
    /\ events' = Log("capture", 0)
    /\ \E size \in CanvasSizes, payload \in Payloads :
         LET d == Decode(payload, size) IN
           /\ canvas_data_url' = payload
           /\ obs' = d.shape
           /\ IF d.raised
              THEN /\ Finish("step", Raised("step", d.exc))
                   /\ owed' = (owed \/ ai_life < prev_bot_life)
              ELSE /\ pc' = "s_bot"
                   /\ UNCHANGED <<ret, ctl, constructed, owed>>
    /\ UNCHANGED <<call, action, keys_to_send, ki, prev_bot_life, prev_player_life,
                   bot_life, player_life, display_active, mode>>
    /\ UNCHANGED simVars
    /\ UNCHANGED <<cmp_lives, lives_at_call, last, caller_resets, ncalls, waits,
                   episode_steps>>
    /\ UNCHANGED <<last_poll, prev_poll, held, n_plus, n_minus, paid, torn>>

\* a step that has polled and stored the counters by the time its capture fails
StepGetObsAfterPoll ==
    /\ pc = "s_up"
    /\ ki > Len(keys_to_send)
    /\ events' = Log("capture", 0)
    /\ \E size \in CanvasSizes, payload \in Payloads :
         LET d == Decode(payload, size) IN
           /\ canvas_data_url' = payload
           /\ obs' = d.shape
           /\ IF d.raised
              THEN /\ Finish("step", Raised("step", d.exc))
                   /\ owed' = (owed \/ ai_life < prev_bot_life)
                   /\ prev_bot_life' = ai_life
                   /\ prev_player_life' = pl_life
              ELSE /\ pc' = "s_bot"
                   /\ UNCHANGED <<ret, ctl, constructed, owed>>
                   /\ UNCHANGED <<prev_bot_life, prev_player_life>>
    /\ UNCHANGED <<call, action, keys_to_send, ki,
                   bot_life, player_life, display_active, mode>>
    /\ UNCHANGED simVars
    /\ UNCHANGED <<cmp_lives, lives_at_call, last, caller_resets, ncalls, waits,
                   episode_steps>>
    /\ UNCHANGED <<last_poll, prev_poll, held, n_plus, n_minus, paid, torn>>

\* obs = self._get_obs(), once the release loop is over
StepGetObs ==
    /\ pc = "s_up"
    /\ ki > Len(keys_to_send)
    /\ events' = Log("capture", 0)
    /\ \E size \in CanvasSizes, payload \in Payloads :
         LET d == Decode(payload, size) IN
           /\ canvas_data_url' = payload
           /\ obs' = d.shape
           /\ IF d.raised
              THEN /\ Finish("step", Raised("step", d.exc))
                   /\ owed' = (owed \/ ai_life < prev_bot_life)
              ELSE /\ pc' = "s_bot"
                   /\ UNCHANGED <<ret, ctl, constructed, owed>>
    /\ UNCHANGED <<call, action, keys_to_send, ki, prev_bot_life, prev_player_life,
                   bot_life, player_life, display_active, mode>>
    /\ UNCHANGED simVars
    /\ UNCHANGED <<cmp_lives, lives_at_call, last, caller_resets, ncalls, waits,
                   episode_steps>>
    /\ UNCHANGED <<last_poll, prev_poll, held, n_plus, n_minus, paid, torn>>

\* a poll that stores the counter as the previous one as soon as it is read
StepPollBotWrites ==
    /\ pc = "s_bot"
    /\ pc' = "s_player"
    /\ bot_life' = ai_life
    /\ prev_bot_life' = ai_life
    /\ events' = Log("poll_bot", 0)
    /\ UNCHANGED <<call, action, keys_to_send, ki, prev_player_life,
                   player_life, display_active, ret>>
    /\ UNCHANGED simVars
    /\ UNCHANGED <<cmp_lives, lives_at_call, ctl, constructed, last, caller_resets, ncalls, waits>>
    /\ UNCHANGED <<canvas_data_url, obs, mode, episode_steps>>
    /\ held' = {<<ai_life, pl_life, display>>}
    /\ UNCHANGED <<last_poll, prev_poll, n_plus, n_minus, owed, paid, torn>>

\* bot_life = execute_script("return pong.ai.life;")
StepPollBot ==
    /\ pc = "s_bot"
    /\ pc' = "s_player"
    /\ bot_life' = ai_life
    /\ events' = Log("poll_bot", 0)
    /\ UNCHANGED <<call, action, keys_to_send, ki, prev_bot_life, prev_player_life,
                   player_life, display_active, ret>>
    /\ UNCHANGED simVars
    /\ UNCHANGED <<cmp_lives, lives_at_call, ctl, constructed, last, caller_resets, ncalls, waits>>
    /\ UNCHANGED <<canvas_data_url, obs, mode, episode_steps>>
    /\ held' = {<<ai_life, pl_life, display>>}
    /\ UNCHANGED <<last_poll, prev_poll, n_plus, n_minus, owed, paid, torn>>

\* player_life = execute_script("return pong.player.life;")
StepPollPlayer ==
    /\ pc = "s_player"
    /\ pc' = "s_display"
    /\ player_life' = pl_life
    /\ events' = Log("poll_player", 0)
    /\ UNCHANGED <<call, action, keys_to_send, ki, prev_bot_life, prev_player_life,
                   bot_life, display_active, ret>>
    /\ UNCHANGED simVars
    /\ UNCHANGED <<cmp_lives, lives_at_call, ctl, constructed, last, caller_resets, ncalls, waits>>
    /\ UNCHANGED <<canvas_data_url, obs, mode, episode_steps>>
    /\ UNCHANGED pollVars

\* a _get_reward_done that forgets to update the previous lives
StepPollDisplayStale ==
    /\ pc = "s_display"
    /\ display_active' = display
    /\ events' = Log("poll_display", 0)
    /\ cmp_lives' = <<prev_bot_life, prev_player_life>>
    /\ UNCHANGED <<prev_bot_life, prev_player_life>>
    /\ episode_steps' = episode_steps + 1
    /\ Finish("step",
              Returned("step",
                       Reward(bot_life, player_life, prev_bot_life, prev_player_life),
                       Done(display, bot_life, player_life),
                       Truncated(episode_steps + 1, MaxStepsArg)))
    /\ prev_poll' = last_poll
    /\ last_poll' = <<bot_life, player_life>>
    /\ n_plus' = IF ret'.reward > 0 THEN n_plus + 1 ELSE n_plus
    /\ n_minus' = IF ret'.reward < 0 THEN n_minus + 1 ELSE n_minus
    /\ paid' = owed
    /\ owed' = FALSE
    /\ torn' = (<<bot_life, player_life, display>> \notin held)
    /\ held' = {}
    /\ UNCHANGED <<call, action, keys_to_send, ki, bot_life, player_life,
                   canvas_data_url, obs, mode>>
    /\ UNCHANGED simVars
    /\ UNCHANGED <<lives_at_call, last, caller_resets, ncalls, waits>>

\* display_active = execute_script("return pong.display;"), then the rest of
\* _get_reward_done and of step: reward, update of the previous lives, done, return
StepPollDisplay ==
    /\ pc = "s_display"
    /\ display_active' = display
    /\ events' = Log("poll_display", 0)
    /\ cmp_lives' = <<prev_bot_life, prev_player_life>>
    /\ prev_bot_life' = bot_life
    /\ prev_player_life' = player_life
    /\ episode_steps' = episode_steps + 1
    /\ Finish("step",
              Returned("step",
                       Reward(bot_life, player_life, prev_bot_life, prev_player_life),
                       Done(display, bot_life, player_life),
                       Truncated(episode_steps + 1, MaxStepsArg)))
    /\ prev_poll' = last_poll
    /\ last_poll' = <<bot_life, player_life>>
    /\ n_plus' = IF ret'.reward > 0 THEN n_plus + 1 ELSE n_plus
    /\ n_minus' = IF ret'.reward < 0 THEN n_minus + 1 ELSE n_minus
    /\ paid' = owed
    /\ owed' = FALSE
    /\ torn' = (<<bot_life, player_life, display>> \notin held)
    /\ held' = {}
    /\ UNCHANGED <<call, action, keys_to_send, ki, bot_life, player_life,
                   canvas_data_url, obs, mode>>
    /\ UNCHANGED simVars
    /\ UNCHANGED <<lives_at_call, last, caller_resets, ncalls, waits>>

\* the round-trip the adapter is about to make raises (the driver cannot reach the
\* page, the script fails): nothing is dispatched and the exception leaves the call
DriverFails ==
    /\ AtRoundTrip
    /\ Finish(call, Raised(IF call \in {"step", "render"} THEN call ELSE "reset",
                           "WebDriverException"))
    /\ obs' = NoObs
    /\ waits' = 0
    /\ UNCHANGED <<call, action, keys_to_send, ki, prev_bot_life, prev_player_life,
                   bot_life, player_life, display_active, canvas_data_url, mode>>
    /\ UNCHANGED simVars
    /\ UNCHANGED <<events, cmp_lives, lives_at_call, last, caller_resets, ncalls,
                   episode_steps>>
    /\ owed' = (owed \/ (call = "step" /\ At = "s_obs" /\ ai_life < prev_bot_life))
    /\ held' = {}
    /\ UNCHANGED <<last_poll, prev_poll, n_plus, n_minus, paid, torn>>

----------------------------------------------------------------------------
(* render and close *)

\* the caller calls env.render(m): the test of the mode
CallRender(m) ==
    /\ pc = "idle"
    /\ ncalls < MaxCalls
    /\ call' = "render"
    /\ mode' = m
    /\ events' = << >>
    /\ last' = Before(ret)
    /\ ncalls' = ncalls + 1
    /\ lives_at_call' = <<prev_bot_life, prev_player_life>>
    /\ NoLocals
    /\ IF m = "rgb_array"
       THEN /\ pc' = "n_obs"
            /\ ret' = NoRet
            /\ UNCHANGED <<ctl, constructed>>
       ELSE IF m = "human"
       THEN Finish("render", Returned("render", 0, FALSE, FALSE))
       ELSE Finish("render", Raised("render", "NotImplementedError"))
    /\ action' = 0
    /\ keys_to_send' = << >>
    /\ ki' = 1
    /\ UNCHANGED <<prev_bot_life, prev_player_life>>
    /\ UNCHANGED simVars
    /\ UNCHANGED <<caller_resets, waits, episode_steps>>
    /\ UNCHANGED <<last_poll, n_plus, n_minus, owed>>

\* obs = self._get_obs(); frame = np.array(obs, dtype=np.uint8).reshape(...); return frame
RenderGetObs ==
    /\ pc = "n_obs"
    /\ events' = Log("capture", 0)
    /\ \E size \in CanvasSizes, payload \in Payloads :
         LET d == Decode(payload, size)
             f == IF d.raised THEN d ELSE Reshape(d.shape)
         IN /\ canvas_data_url' = payload
            /\ obs' = f.shape
            /\ IF f.raised
               THEN Finish("render", Raised("render", f.exc))
               ELSE Finish("render", Returned("render", 0, FALSE, FALSE))
    /\ UNCHANGED <<call, action, keys_to_send, ki, prev_bot_life, prev_player_life,
                   bot_life, player_life, display_active, mode>>
    /\ UNCHANGED simVars
    /\ UNCHANGED <<cmp_lives, lives_at_call, last, caller_resets, ncalls, waits,
                   episode_steps>>
    /\ UNCHANGED pollVars

\* the caller calls env.close(): self.driver.quit()
Close ==
    /\ pc = "idle"
    /\ pc' = "closed"
    /\ call' = "close"
    /\ events' = <<Ev("quit", 0)>>
    /\ last' = Before(ret)
    /\ ret' = Returned("close", 0, FALSE, FALSE)
    /\ lives_at_call' = <<prev_bot_life, prev_player_life>>
    /\ NoLocals
    /\ action' = 0
    /\ keys_to_send' = << >>
    /\ ki' = 1
    /\ mode' = "none"
    /\ UNCHANGED <<prev_bot_life, prev_player_life>>
    /\ UNCHANGED simVars
    /\ UNCHANGED <<ctl, constructed, caller_resets, ncalls, waits, episode_steps>>
    /\ UNCHANGED <<last_poll, n_plus, n_minus, owed>>

----------------------------------------------------------------------------
(* The simulator's own loop, running between the adapter's round-trips *)

\* the simulator comes to hold <<b, p, d>>: noted while a step is between its polls
Holds(b, p, d) ==
    /\ held' = IF pc \in {"s_player", "s_display"} THEN held \cup {<<b, p, d>>} ELSE held
    /\ UNCHANGED <<last_poll, prev_poll, n_plus, n_minus, owed, paid, torn>>

PageLoaded == pc \notin {"new", "dead", "closed"} /\ (pc = "r_get" => constructed)

\* the agent scores: the opponent loses a life
SimBotLosesLife ==
    /\ PageLoaded /\ display
    /\ ai_life > StartLife - MaxLoss
    /\ ai_life' = ai_life - 1
    /\ UNCHANGED <<pl_life, display, multiplayer, sim_keys>>
    /\ UNCHANGED adapterVars
    /\ UNCHANGED histVars
    /\ Holds(ai_life', pl_life, display)

\* the agent concedes: it loses a life
SimPlayerLosesLife ==
    /\ PageLoaded /\ display
    /\ pl_life > StartLife - MaxLoss
    /\ pl_life' = pl_life - 1
    /\ UNCHANGED <<ai_life, display, multiplayer, sim_keys>>
    /\ UNCHANGED adapterVars
    /\ UNCHANGED histVars
    /\ Holds(ai_life, pl_life', display)

\* the game ends: the render loop stops
SimGameOver ==
    /\ PageLoaded /\ display
    /\ display' = FALSE
    /\ UNCHANGED <<ai_life, pl_life, multiplayer, sim_keys>>
    /\ UNCHANGED adapterVars
    /\ UNCHANGED histVars
    /\ Holds(ai_life, pl_life, FALSE)

\* the render loop starts some time after the restart command
SimStart ==
    /\ pc \in {"r_wait", "r_sleep"} /\ ~display
    /\ display' = TRUE
    /\ UNCHANGED <<ai_life, pl_life, multiplayer, sim_keys>>
    /\ UNCHANGED adapterVars
    /\ UNCHANGED histVars
    /\ Holds(ai_life, pl_life, TRUE)

----------------------------------------------------------------------------
(* Specifications *)

Adapter ==
    \/ NewEnv
    \/ CallReset
    \/ ResetLoadPage
    \/ ResetSinglePlayer
    \/ ResetRestart
    \/ ResetWait
    \/ ResetSleep
    \/ ResetPrevLives
    \/ ResetFindCanvas
    \/ ResetFocus
    \/ ResetGetObs
    \/ \E a \in ActionInputs : CallStep(a)
    \/ StepFindCanvas
    \/ StepKeyDown
    \/ StepSettle
    \/ StepKeyUp
    \/ StepGetObs
    \/ StepPollBot
    \/ StepPollPlayer
    \/ StepPollDisplay
    \/ \E m \in RenderModes : CallRender(m)
    \/ RenderGetObs
    \/ Close

Simulator ==
    \/ SimBotLosesLife
    \/ SimPlayerLosesLife
    \/ SimGameOver
    \/ SimStart

Next == Adapter \/ DriverFails \/ Simulator

Spec == Init /\ [][Next]_vars

\* the adapter keeps running: a blocked call is blocked on the simulator only.
\* Nothing obliges the simulator to act, nor the driver to fail.
FairSpec == Spec /\ WF_vars(Adapter)

----------------------------------------------------------------------------
(* Vocabulary of the properties *)

StepReturned  == pc = "idle" /\ ret.kind = "step" /\ ret.outcome = "ok"
StepRaised    == pc = "idle" /\ ret.kind = "step" /\ ret.outcome \notin {"ok", "none"}
ResetReturned == pc = "idle" /\ ret.kind = "reset" /\ ret.outcome = "ok"

Ops(evs) == [i \in 1 .. Len(evs) |-> evs[i].op]

IsInputOp(e) == e.op \in {"keydown", "sleep", "keyup"}
\* the key events and the settle wait of a call, in order
KeyEvents(evs) == SelectSeq(evs, IsInputOp)

IsNotFalsePoll(e) == e.op # "poll_false"
\* the interactions of a reset, without the polls that answered false
ResetSteps(evs) == Ops(SelectSeq(evs, IsNotFalsePoll))

\* press, settle, release for the keys ks
PressSettleRelease(ks) ==
    [i \in 1 .. Len(ks) |-> Ev("keydown", ks[i])]
      \o <<Ev("sleep", 0)>>
      \o [i \in 1 .. Len(ks) |-> Ev("keyup", ks[i])]

\* the order of a reset
ResetOrder ==
    <<"get", "multiplayer_off", "restart", "poll_true", "set_lives", "find", "click",
      "capture">>

IsPrefix(a, b) == Len(a) <= Len(b) /\ a = SubSeq(b, 1, Len(a))

----------------------------------------------------------------------------
(* C1 .. C10 *)

\* C1: the reward a step returns is +1 exactly when the polled opponent counter is
\* below the previous one, -1 exactly when the polled agent counter is below the
\* previous one and the opponent counter is not, and 0 otherwise.
C1_RewardRule ==
    StepReturned =>
        LET scored   == bot_life < cmp_lives[1]
            conceded == player_life < cmp_lives[2]
        IN  /\ ret.reward \in {0 - 1, 0, 1}
            /\ (ret.reward = 1) <=> scored
            /\ (ret.reward = 0 - 1) <=> (conceded /\ ~scored)
            /\ (ret.reward = 0) <=> (~scored /\ ~conceded)

\* C1 witness: both counters fell in one polling interval and the step returned +1
C1_BothFell ==
    /\ StepReturned
    /\ bot_life < cmp_lives[1]
    /\ player_life < cmp_lives[2]
    /\ ret.reward = 1

\* C2: a step returns terminated = true exactly when its poll of pong.display
\* answered false, whatever the counters and the reward.
C2_TerminatedIffNotLive ==
    StepReturned => (ret.done <=> ~display_active)

\* C2 witness: a step that lost lives on both sides and was rewarded, not terminated
C2_LivesLostNotTerminated ==
    /\ StepReturned
    /\ ~ret.done
    /\ bot_life < StartLife
    /\ player_life < StartLife
    /\ ret.reward # 0

\* C3 (as claimed): a step called after a step returned terminated = true, with no
\* reset between, fails with ProtocolViolation without any simulator interaction
\* and leaves the previous lives unchanged.
C3_StepAfterTerminatedRejected ==
    (call = "step" /\ last = "step_done") =>
        /\ pc = "idle"
        /\ ret.outcome = "ProtocolViolation"
        /\ events = << >>
        /\ <<prev_bot_life, prev_player_life>> = lives_at_call

\* C4 (as claimed): a step called right after construction, before any reset call
\* of the caller, fails with ProtocolViolation without any simulator interaction.
C4_StepBeforeResetRejected ==
    (constructed /\ call = "step" /\ caller_resets = 0 /\ ncalls = 1) =>
        /\ pc = "idle"
        /\ ret.outcome = "ProtocolViolation"
        /\ events = << >>

\* C4 (amended): the constructor has run a whole reset before it returns, so the
\* page is loaded in single-player mode and the controller is Ready when the caller
\* gets the environment; a step called right away is never rejected as a protocol
\* violation, and when it returns it has captured a frame, polled the simulator and
\* compared the counters with (5, 5).
C4_ConstructionResets ==
    /\ (constructed /\ ncalls = 0) => (ctl = "Ready" /\ ~multiplayer)
    /\ (constructed /\ call = "step" /\ caller_resets = 0 /\ ncalls = 1) =>
           /\ ret.outcome # "ProtocolViolation"
           /\ StepReturned =>
                  /\ cmp_lives = <<StartLife, StartLife>>
                  /\ \E i \in 1 .. Len(events) : events[i].op = "capture"
                  /\ events[Len(events)].op = "poll_display"

\* C4 witness: the first call after construction is a step, and it returned
C4_FirstCallIsStep ==
    /\ constructed /\ call = "step" /\ caller_resets = 0 /\ ncalls = 1
    /\ StepReturned

\* C5 (as claimed): a step that returns has emitted, for the key of its action, one
\* keydown, then the settle wait, then one keyup of the same key, and nothing else
\* as input (action 0: the settle wait alone); no key at all is pressed in the
\* simulator when the step returns.
C5_PressThenRelease ==
    StepReturned =>
        /\ action \in DOMAIN action_keys
        /\ KeyEvents(events) = PressSettleRelease(action_keys[action])
        /\ sim_keys = {}

\* C6 (as claimed): when a step ends in an error after it emitted a keydown, the
\* key it pressed is not left pressed in the simulator.
C6_NoKeyLeftPressed ==
    StepRaised =>
        \A i \in 1 .. Len(events) :
            events[i].op = "keydown" => events[i].key \notin sim_keys

\* C7: a step with an action identifier outside 0 .. 4 ends in an error with no
\* simulator interaction at all and with the previous lives unchanged.
C7_OutOfRangeRejected ==
    (call = "step" /\ action \notin 0 .. 4) =>
        /\ pc = "idle"
        /\ ret.kind = "step"
        /\ ret.outcome = "KeyError"
        /\ events = << >>
        /\ <<prev_bot_life, prev_player_life>> = lives_at_call

\* C7 witness: identifier 5 was refused in the middle of an episode
C7_FiveRefused ==
    /\ StepRaised
    /\ action = 5
    /\ ret.outcome = "KeyError"
    /\ prev_bot_life < StartLife

\* C8: after every reset that returns, the previous lives are (5, 5) and the
\* controller is Ready, whatever was called before.
C8_ResetRestoresStart ==
    ResetReturned =>
        /\ prev_bot_life = StartLife
        /\ prev_player_life = StartLife
        /\ ctl = "Ready"

\* C8 witness: a reset returned although the call began with other counters,
\* left by a terminated episode
C8_ResetAfterEpisode ==
    /\ ResetReturned
    /\ last = "step_done"
    /\ lives_at_call # <<StartLife, StartLife>>

\* C9 (as claimed): when the simulator never shows its display after the restart
\* command, the readiness wait of reset still ends (in a ReadinessTimeout).
C9_ReadinessWaitEnds ==
    (pc = "r_wait" /\ [](~display)) ~> (pc \notin {"r_wait", "r_sleep"})

\* C10: a reset interacts in the order load page, single-player, restart, polls
\* until one answers true, previous lives := (5, 5), find the canvas and click on
\* it, capture;
\* it returns only with the whole sequence done, and every poll that answered
\* false comes after the restart and before the poll that answered true.
C10_ResetOrder ==
    (call \in {"init", "reset"}) =>
        /\ IsPrefix(ResetSteps(events), ResetOrder)
        /\ \A i \in 1 .. Len(events) :
               events[i].op = "poll_false" =>
                   i > 1 /\ events[i - 1].op \in {"restart", "poll_false"}
        /\ ResetReturned => ResetSteps(events) = ResetOrder

\* C10 witness: a reset of the caller returned after a poll that answered false
C10_ResetWaited ==
    /\ ResetReturned
    /\ call = "reset"
    /\ \E i \in 1 .. Len(events) : events[i].op = "poll_false"

----------------------------------------------------------------------------
(* C11 .. C20 *)

RenderFinished == pc = "idle" /\ call = "render" /\ ret.kind = "render"

DeclaredShape == <<self_h, self_w, self_c>>

\* C11: every transition a step returns has truncated = false and an empty info,
\* however many steps the episode has had and whatever step budget was passed.
C11_NeverTruncated ==
    StepReturned => (ret.truncated = FALSE /\ ret.info = << >>)

\* C11 witness: a step returned, not truncated, with more steps in the episode
\* than the budget
C11_PastTheBudget ==
    /\ StepReturned
    /\ episode_steps > MaxStepsArg
    /\ ~ret.truncated

\* C12 (as claimed): every observation that reset or step returns has the declared
\* shape (96, 96, 3), whatever the size of the page's canvas.
C12_DeclaredShape ==
    (ResetReturned \/ StepReturned) => obs = DeclaredShape

\* C14: a call whose capture received a payload that cannot be decoded ends in one
\* of the decoding exceptions, none of them the driver's exception, and hands out
\* no observation.
C14_DecodeFailureRaised ==
    (canvas_data_url \notin {"none", "png"}) =>
        /\ pc \in {"idle", "dead"}
        /\ ret.outcome \in DecodeErrors
        /\ ret.outcome # "WebDriverException"
        /\ obs = NoObs

\* C14 witness: a step ended in UnidentifiedImageError on a payload that is no image
C14_StepNotAnImage ==
    /\ StepRaised
    /\ canvas_data_url = "not_image"
    /\ ret.outcome = "UnidentifiedImageError"

\* C15 (as claimed): render("rgb_array") returns the frame it captured, whenever
\* the capture arrived and decoded; render("human") returns nothing without any
\* simulator interaction; another mode ends in the unsupported-mode error; no
\* render changes the previous lives or emits input events.
C15_RenderModes ==
    RenderFinished =>
        /\ <<prev_bot_life, prev_player_life>> = lives_at_call
        /\ KeyEvents(events) = << >>
        /\ (mode = "human") =>
               (ret.outcome = "ok" /\ events = << >> /\ obs = NoObs)
        /\ (mode \notin {"rgb_array", "human"}) =>
               (ret.outcome = "NotImplementedError" /\ events = << >>)
        /\ (mode = "rgb_array" /\ canvas_data_url = "png") =>
               (ret.outcome = "ok" /\ obs # NoObs /\ Ops(events) = <<"capture">>)

\* C13: while the polls of an episode keep answering the counters of the poll
\* before and liveness true, each step returns reward 0 and terminated = false; a
\* step whose poll answers liveness false returns terminated = true, with the
\* reward of its counters against those of the last poll before it.
C13_QuietThenOver ==
    StepReturned =>
        /\ (<<bot_life, player_life>> = prev_poll /\ display_active) =>
               (ret.reward = 0 /\ ~ret.done)
        /\ (~display_active) =>
               /\ ret.done
               /\ ret.reward = IF bot_life < prev_poll[1] THEN 1
                                ELSE IF player_life < prev_poll[2] THEN 0 - 1
                                ELSE 0

\* C13 witness: after a step that polled a lower opponent counter, a step polled
\* liveness false and a lower agent counter: terminated, reward -1
C13_OverAfterQuiet ==
    /\ StepReturned
    /\ last = "step"
    /\ ret.done
    /\ ret.reward = 0 - 1
    /\ prev_poll[1] < StartLife
    /\ bot_life = prev_poll[1]

\* the interactions of a step with action a, in order
StepOrder(a) ==
    <<"find">> \o Ops(PressSettleRelease(action_keys[a]))
               \o <<"capture", "poll_bot", "poll_player", "poll_display">>

\* C16: the interactions of a step come in the order keydown events, settle wait,
\* keyup events, capture, the three polls; a step returns only with the whole
\* order done, and the previous lives change only as the last poll is made.
C16_StepOrder ==
    (call = "step" /\ action \in DOMAIN action_keys) =>
        /\ IsPrefix(Ops(events), StepOrder(action))
        /\ StepReturned => Ops(events) = StepOrder(action)
        /\ (<<prev_bot_life, prev_player_life>> # lives_at_call) =>
               (pc = "idle" /\ Ops(events) = StepOrder(action))

\* C16 witness: a step with action 1 returned with other previous lives, after
\* keydown, settle, keyup, capture and the polls
C16_UpStepInOrder ==
    /\ StepReturned
    /\ action = 1
    /\ Ops(events) = <<"find", "keydown", "sleep", "keyup", "capture",
                       "poll_bot", "poll_player", "poll_display">>
    /\ <<prev_bot_life, prev_player_life>> # lives_at_call

\* C17 (as claimed): the three values a step uses for reward and termination were
\* held by the simulator together, at one instant between the first and the last
\* read of the step: no step uses a torn triple.
C17_NoTornTriple ==
    StepReturned => ~torn

PrevLives == <<prev_bot_life, prev_player_life>>

\* the positions of the adapter inside a step
StepPositions == {"s_find", "s_down", "s_up", "s_bot", "s_player", "s_display"}

\* C18: the previous lives are written only by reset, to (5, 5), and by the last
\* poll of a step as the step returns, to the counters that step polled; render
\* and close leave them as they are; no move of the adapter inside a step changes
\* the simulator's life counters or its liveness flag.
C18_WritesOfPrevLives ==
    [][ /\ (PrevLives' # PrevLives) =>
              \/ pc = "r_set" /\ PrevLives' = <<StartLife, StartLife>>
              \/ /\ pc = "s_display" /\ pc' = "idle"
                 /\ ret'.kind = "step" /\ ret'.outcome = "ok"
                 /\ PrevLives' = <<bot_life, player_life>>
                 /\ Ops(events') = StepOrder(action)
        /\ (call' \in {"render", "close"}) => (PrevLives' = PrevLives)
        /\ (pc \in StepPositions /\ (pc' # pc \/ ki' # ki)) =>
              (ai_life' = ai_life /\ pl_life' = pl_life /\ display' = display)
      ]_vars

\* C18 witness: the environment was closed after a step; the previous lives are the
\* counters that step polled, not (5, 5), and are what they were before the close
C18_ClosedAfterStep ==
    /\ pc = "closed"
    /\ last \in {"step", "step_done"}
    /\ PrevLives = last_poll
    /\ PrevLives # <<StartLife, StartLife>>
    /\ PrevLives = lives_at_call

\* C19: since the last reset began, the rewards +1 returned are at most 5 minus the
\* opponent counter polled last, the rewards -1 at most 5 minus the agent counter
\* polled last; a step returns one reward unit at most.
C19_RewardsBoundedByLosses ==
    /\ n_plus <= StartLife - last_poll[1]
    /\ n_minus <= StartLife - last_poll[2]
    /\ StepReturned => ret.reward \in {0 - 1, 0, 1}

\* C19 witness: the opponent lost two lives between two polls and the step
\* returned +1, the only +1 of the episode
C19_TwoLossesOneReward ==
    /\ StepReturned
    /\ bot_life <= prev_poll[1] - 2
    /\ ret.reward = 1
    /\ n_plus = 1

IsPollOp(e) == e.op \in {"poll_bot", "poll_player", "poll_display"}

\* C20: a step that fails in its capture has polled nothing and leaves the previous
\* lives as they were; when the opponent's counter was below the previous one at
\* such a failure, the next step that completes returns +1.
C20_FailedCaptureKeepsReward ==
    /\ (StepRaised /\ ret.at = "s_obs") =>
           /\ SelectSeq(events, IsPollOp) = << >>
           /\ PrevLives = lives_at_call
    /\ (StepReturned /\ paid) => ret.reward = 1

\* C20 witness: a step returned +1 right after a step that failed in its capture
\* with the opponent's life loss not yet rewarded
C20_RewardedAfterFailure ==
    /\ StepReturned
    /\ paid
    /\ last = "failed"
    /\ ret.reward = 1
    /\ bot_life < lives_at_call[1]

====
